---- MODULE Spec2Model ----
(***************************************************************************)
(* Model of the GST utilities of semly-admin (src/lib/gst-utils.ts).       *)
(*                                                                         *)
(* JavaScript numbers are IEEE-754 doubles.  calculateGST divides and      *)
(* multiplies by the non-integer factors gstRate / 100 and                 *)
(* 1 + gstRate / 100 before it calls Math.round, so the arithmetic is      *)
(* modelled as correctly rounded double arithmetic (round to nearest,      *)
(* ties to even) on 53-bit significands.  Significands do not fit the      *)
(* integers of the model checker, so they are kept as arbitrary-precision  *)
(* naturals: little-endian sequences of limbs in base 2^15.                *)
(***************************************************************************)
EXTENDS Integers, Sequences, FiniteSets, TLC

(***************************************************************************)
(* Arbitrary-precision naturals.  << >> is zero; the last limb of a        *)
(* non-zero number is non-zero.                                            *)
(***************************************************************************)
LimbBits == 15
Base == 2^LimbBits

RECURSIVE BigFromInt(_)
BigFromInt(n) ==
  IF n = 0 THEN << >> ELSE <<n % Base>> \o BigFromInt(n \div Base)

RECURSIVE BigToInt(_)
BigToInt(x) ==
  IF x = << >> THEN 0 ELSE Head(x) + Base * BigToInt(Tail(x))

RECURSIVE Norm(_)
Norm(x) ==
  IF x = << >> THEN x
  ELSE IF x[Len(x)] = 0 THEN Norm(SubSeq(x, 1, Len(x) - 1)) ELSE x

RECURSIVE AddC(_, _, _)
AddC(x, y, c) ==
  IF x = << >> /\ y = << >>
  THEN IF c = 0 THEN << >> ELSE <<c>>
  ELSE LET a == IF x = << >> THEN 0 ELSE Head(x)
           b == IF y = << >> THEN 0 ELSE Head(y)
           s == a + b + c
       IN <<s % Base>> \o AddC(IF x = << >> THEN x ELSE Tail(x),
                               IF y = << >> THEN y ELSE Tail(y),
                               s \div Base)

BigAdd(x, y) == AddC(x, y, 0)

RECURSIVE SubB(_, _, _)
SubB(x, y, b) ==
  IF x = << >> THEN << >>
  ELSE LET d == Head(x) - (IF y = << >> THEN 0 ELSE Head(y)) - b
       IN <<d % Base>> \o SubB(Tail(x),
                               IF y = << >> THEN y ELSE Tail(y),
                               IF d < 0 THEN 1 ELSE 0)

\* x - y for x >= y
BigSub(x, y) == Norm(SubB(x, y, 0))

RECURSIVE CmpFrom(_, _, _)
CmpFrom(x, y, i) ==
  IF i = 0 THEN 0
  ELSE IF x[i] > y[i] THEN 1
  ELSE IF x[i] < y[i] THEN -1
  ELSE CmpFrom(x, y, i - 1)

\* -1, 0 or 1 as x < y, x = y or x > y
BigCmp(x, y) ==
  IF Len(x) > Len(y) THEN 1
  ELSE IF Len(x) < Len(y) THEN -1
  ELSE CmpFrom(x, y, Len(x))

RECURSIVE MulC(_, _, _)
MulC(x, k, c) ==
  IF x = << >>
  THEN IF c = 0 THEN << >> ELSE <<c>>
  ELSE LET p == Head(x) * k + c
       IN <<p % Base>> \o MulC(Tail(x), k, p \div Base)

\* x * k for a limb 0 <= k < Base
BigMulSmall(x, k) == IF k = 0 THEN << >> ELSE MulC(x, k, 0)

RECURSIVE BigMul(_, _)
BigMul(x, y) ==
  IF y = << >> \/ x = << >> THEN << >>
  ELSE LET hi == BigMul(x, Tail(y))
       IN BigAdd(BigMulSmall(x, Head(y)),
                 IF hi = << >> THEN hi ELSE <<0>> \o hi)

\* x * 2^n
BigShl(x, n) ==
  IF x = << >> THEN x
  ELSE [i \in 1..(n \div LimbBits) |-> 0] \o MulC(x, 2^(n % LimbBits), 0)

RECURSIVE IntBitLen(_)
IntBitLen(n) == IF n = 0 THEN 0 ELSE 1 + IntBitLen(n \div 2)

BigBitLen(x) ==
  IF x = << >> THEN 0 ELSE LimbBits * (Len(x) - 1) + IntBitLen(x[Len(x)])

BigOdd(x) == x # << >> /\ x[1] % 2 = 1

\* floor(x / k) and x mod k for a limb 0 < k < Base; the limbs x[i], ...,
\* x[1] are still to divide, Q holds the quotient limbs found so far
RECURSIVE DivSmallLoop(_, _, _, _, _)
DivSmallLoop(x, k, i, rem, Q) ==
  IF i = 0 THEN [q |-> Norm(Q), r |-> IF rem = 0 THEN << >> ELSE <<rem>>]
  ELSE DivSmallLoop(x, k, i - 1, (rem * Base + x[i]) % k,
                    <<(rem * Base + x[i]) \div k>> \o Q)

BigDivModSmall(x, k) == DivSmallLoop(x, k, Len(x), 0, << >>)

\* the largest q in lo..hi with D * q <= R, given D * lo <= R
RECURSIVE DigitSearch(_, _, _, _)
DigitSearch(D, R, lo, hi) ==
  IF lo >= hi THEN lo
  ELSE IF BigCmp(BigMulSmall(D, (lo + hi + 1) \div 2), R) <= 0
       THEN DigitSearch(D, R, (lo + hi + 1) \div 2, hi)
       ELSE DigitSearch(D, R, lo, (lo + hi + 1) \div 2 - 1)

Limb(x, i) == IF i <= Len(x) THEN x[i] ELSE 0

\* the quotient limb of R by D when R < D * Base and D has two or more limbs.
\* With rt the two leading limbs of R (at the positions of D's leading limb
\* dt and the one above), the limb lies in rt \div (dt + 1) .. rt \div dt.
DigitBounded(D, R, rt, dt) ==
  DigitSearch(D, R, rt \div (dt + 1),
              IF rt \div dt < Base THEN rt \div dt ELSE Base - 1)

QuotientDigit(D, R) ==
  DigitBounded(D, R, Limb(R, Len(D) + 1) * Base + Limb(R, Len(D)), D[Len(D)])

\* long division by a D of two or more limbs: the limbs N[i], ..., N[1] are
\* still to bring down, R < D is the running remainder, Q the quotient limbs
RECURSIVE DivLoop(_, _, _, _, _)
RECURSIVE DivStep(_, _, _, _, _)
RECURSIVE DivEmit(_, _, _, _, _, _)
DivLoop(N, D, i, R, Q) ==
  IF i = 0 THEN [q |-> Norm(Q), r |-> R]
  ELSE DivStep(N, D, i, Norm(<<N[i]>> \o R), Q)
DivStep(N, D, i, R1, Q) == DivEmit(N, D, i, R1, Q, QuotientDigit(D, R1))
DivEmit(N, D, i, R1, Q, d) ==
  DivLoop(N, D, i - 1, BigSub(R1, BigMulSmall(D, d)), <<d>> \o Q)

\* N and D scaled by the limb k, so that the leading limb of D has all its
\* bits; the quotient is that of N by D, the remainder is scaled back
UnscaleRemainder(qr, k) == [q |-> qr.q, r |-> BigDivModSmall(qr.r, k).q]
DivModScaled(NN, DD, k) ==
  UnscaleRemainder(DivLoop(NN, DD, Len(NN), << >>, << >>), k)
DivModBy(N, D, k) == DivModScaled(BigMulSmall(N, k), BigMulSmall(D, k), k)

\* quotient and remainder of N by D, D > 0
BigDivMod(N, D) ==
  IF Len(D) = 1 THEN BigDivModSmall(N, D[1])
  ELSE DivModBy(N, D, 2^(LimbBits - IntBitLen(D[Len(D)])))

(***************************************************************************)
(* Non-negative finite doubles: zero is [m |-> << >>, e |-> 0]; every      *)
(* other value is m * 2^e with 2^52 <= m < 2^53 (normal numbers; the       *)
(* values of this module stay far from the subnormal and overflow ranges). *)
(***************************************************************************)
MantBits == 52 + 1
TwoPow52 == BigShl(<<1>>, MantBits - 1)
TwoPow53 == BigShl(<<1>>, MantBits)
DZero == [m |-> << >>, e |-> 0]

\* a significand rounded up to 2^53 is 2^52 with the next exponent
Pack(q, e) ==
  IF q = TwoPow53 THEN [m |-> TwoPow52, e |-> e + 1] ELSE [m |-> q, e |-> e]

\* c compares twice the remainder with the divisor: round to nearest, a tie
\* to the even significand
RoundUp(q, c) == c > 0 \/ (c = 0 /\ BigOdd(q))
Nearest(qr, D, e) ==
  Pack(IF RoundUp(qr.q, BigCmp(BigShl(qr.r, 1), D))
       THEN BigAdd(qr.q, <<1>>) ELSE qr.q, e)

\* 2^52 < N / D < 2^54: one more halving when the quotient has 54 bits
Fit(N, D, e) ==
  IF BigCmp(N, BigShl(D, MantBits)) >= 0
  THEN Nearest(BigDivMod(N, BigShl(D, 1)), BigShl(D, 1), e + 1)
  ELSE Nearest(BigDivMod(N, D), D, e)

Scale(N, D, e, s) ==
  Fit(IF s >= 0 THEN BigShl(N, s) ELSE N,
      IF s >= 0 THEN D ELSE BigShl(D, -s), e - s)

\* the double nearest to (N / D) * 2^e, ties to the even significand
RoundRat(N, D, e) ==
  IF N = << >> THEN DZero
  ELSE Scale(N, D, e, MantBits - (BigBitLen(N) - BigBitLen(D)))

\* an integer 0 <= n < 2^31 as a double (exact)
FromInt(n) == RoundRat(BigFromInt(n), <<1>>, 0)

\* x * y
MulD(x, y) == RoundRat(BigMul(x.m, y.m), <<1>>, x.e + y.e)

\* x / y, y # 0
DivD(x, y) == RoundRat(x.m, y.m, x.e - y.e)

\* x + y
AlignedSum(x, y, lo) ==
  RoundRat(BigAdd(BigShl(x.m, x.e - lo), BigShl(y.m, y.e - lo)), <<1>>, lo)
AddD(x, y) == AlignedSum(x, y, IF x.e < y.e THEN x.e ELSE y.e)

\* floor(m / D + 1/2)
HalfUp(m, D) == BigToInt(BigDivMod(BigAdd(BigShl(m, 1), D), BigShl(D, 1)).q)

\* Math.round of a non-negative double: the nearest integer, a tie going up
MathRound(x) ==
  IF x.m = << >> THEN 0
  ELSE IF x.e >= 0 THEN BigToInt(BigShl(x.m, x.e))
  ELSE HalfUp(x.m, BigShl(<<1>>, -x.e))

(***************************************************************************)
(* calculateGST.  Monetary fields are integers (minor units); the three    *)
(* rate fields are doubles because gstRate / 2 need not be an integer.     *)
(* The function is modelled in the order of its statements: the amounts    *)
(* (base, tax, total), then the split by transaction type.                 *)
(***************************************************************************)
\* Math.floor in place of Math.round
ExtractBaseFloor(amountCents, gstRate) ==
  LET x == DivD(FromInt(amountCents),
                AddD(FromInt(1), DivD(FromInt(gstRate), FromInt(100))))
  IN IF x.m = << >> THEN 0
     ELSE IF x.e >= 0 THEN BigToInt(BigShl(x.m, x.e))
     ELSE BigToInt(BigDivMod(x.m, BigShl(<<1>>, -x.e)).q)

\* Math.ceil in place of Math.round
AddedGstCeil(baseAmountCents, gstRate) ==
  LET x == MulD(FromInt(baseAmountCents), DivD(FromInt(gstRate), FromInt(100)))
      D == BigShl(<<1>>, -x.e)
  IN IF x.m = << >> THEN 0
     ELSE IF x.e >= 0 THEN BigToInt(BigShl(x.m, x.e))
     ELSE BigToInt(BigDivMod(BigAdd(x.m, BigSub(D, <<1>>)), D).q)

\* baseAmountCents = Math.round(amountCents / (1 + gstRate / 100))
ExtractBase(amountCents, gstRate) ==
  MathRound(DivD(FromInt(amountCents),
                 AddD(FromInt(1), DivD(FromInt(gstRate), FromInt(100)))))

\* totalGstCents = Math.round(baseAmountCents * (gstRate / 100))
AddedGst(baseAmountCents, gstRate) ==
  MathRound(MulD(FromInt(baseAmountCents), DivD(FromInt(gstRate), FromInt(100))))

InclusiveAmounts(amountCents, baseAmountCents) ==
  [baseAmountCents  |-> baseAmountCents,
   totalGstCents    |-> amountCents - baseAmountCents,
   totalAmountCents |-> amountCents]

\* the total left at the base amount
ExclusiveAmountsTaxNotAdded(amountCents, totalGstCents) ==
  [baseAmountCents  |-> amountCents,
   totalGstCents    |-> totalGstCents,
   totalAmountCents |-> amountCents]

ExclusiveAmounts(amountCents, totalGstCents) ==
  [baseAmountCents  |-> amountCents,
   totalGstCents    |-> totalGstCents,
   totalAmountCents |-> amountCents + totalGstCents]

GstAmounts(input) ==
  IF input.isTaxInclusive
  THEN InclusiveAmounts(input.amountCents,
                        ExtractBase(input.amountCents, input.gstRate))
  ELSE ExclusiveAmounts(input.amountCents,
                        AddedGst(input.amountCents, input.gstRate))

\* Math.floor(totalGstCents / 2)
HalfGstFloor(totalGstCents) == totalGstCents \div 2

\* cgstAmountCents = Math.round(totalGstCents / 2)
HalfGst(totalGstCents) == MathRound(DivD(FromInt(totalGstCents), FromInt(2)))

\* both halves rounded on their own
IntrastateSplitBothRounded(gstRate, a, cgstAmountCents) ==
  [baseAmountCents  |-> a.baseAmountCents,
   cgstAmountCents  |-> cgstAmountCents,
   sgstAmountCents  |-> cgstAmountCents,
   igstAmountCents  |-> 0,
   totalGstCents    |-> a.totalGstCents,
   totalAmountCents |-> a.totalAmountCents,
   taxType          |-> "CGST_SGST",
   cgstRate         |-> DivD(FromInt(gstRate), FromInt(2)),
   sgstRate         |-> DivD(FromInt(gstRate), FromInt(2)),
   igstRate         |-> DZero]

\* the full rate in each split rate
IntrastateSplitFullRates(gstRate, a, cgstAmountCents) ==
  [baseAmountCents  |-> a.baseAmountCents,
   cgstAmountCents  |-> cgstAmountCents,
   sgstAmountCents  |-> a.totalGstCents - cgstAmountCents,
   igstAmountCents  |-> 0,
   totalGstCents    |-> a.totalGstCents,
   totalAmountCents |-> a.totalAmountCents,
   taxType          |-> "CGST_SGST",
   cgstRate         |-> FromInt(gstRate),
   sgstRate         |-> FromInt(gstRate),
   igstRate         |-> DZero]

\* the subtraction turned round: cgstAmountCents - totalGstCents
IntrastateSplitSwapped(gstRate, a, cgstAmountCents) ==
  [baseAmountCents  |-> a.baseAmountCents,
   cgstAmountCents  |-> cgstAmountCents,
   sgstAmountCents  |-> cgstAmountCents - a.totalGstCents,
   igstAmountCents  |-> 0,
   totalGstCents    |-> a.totalGstCents,
   totalAmountCents |-> a.totalAmountCents,
   taxType          |-> "CGST_SGST",
   cgstRate         |-> DivD(FromInt(gstRate), FromInt(2)),
   sgstRate         |-> DivD(FromInt(gstRate), FromInt(2)),
   igstRate         |-> DZero]

IntrastateSplit(gstRate, a, cgstAmountCents) ==
  [baseAmountCents  |-> a.baseAmountCents,
   cgstAmountCents  |-> cgstAmountCents,
   sgstAmountCents  |-> a.totalGstCents - cgstAmountCents,
   igstAmountCents  |-> 0,
   totalGstCents    |-> a.totalGstCents,
   totalAmountCents |-> a.totalAmountCents,
   taxType          |-> "CGST_SGST",
   cgstRate         |-> DivD(FromInt(gstRate), FromInt(2)),
   sgstRate         |-> DivD(FromInt(gstRate), FromInt(2)),
   igstRate         |-> DZero]

\* the tax also split in the interstate branch
InterstateSplitHalved(gstRate, a) ==
  [baseAmountCents  |-> a.baseAmountCents,
   cgstAmountCents  |-> a.totalGstCents \div 2,
   sgstAmountCents  |-> a.totalGstCents - a.totalGstCents \div 2,
   igstAmountCents  |-> 0,
   totalGstCents    |-> a.totalGstCents,
   totalAmountCents |-> a.totalAmountCents,
   taxType          |-> "IGST",
   cgstRate         |-> DZero,
   sgstRate         |-> DZero,
   igstRate         |-> FromInt(gstRate)]

InterstateSplit(gstRate, a) ==
  [baseAmountCents  |-> a.baseAmountCents,
   cgstAmountCents  |-> 0,
   sgstAmountCents  |-> 0,
   igstAmountCents  |-> a.totalGstCents,
   totalGstCents    |-> a.totalGstCents,
   totalAmountCents |-> a.totalAmountCents,
   taxType          |-> "IGST",
   cgstRate         |-> DZero,
   sgstRate         |-> DZero,
   igstRate         |-> FromInt(gstRate)]

\* the regime taken from the merchant's state alone: merchantState === 'KA'
SplitGstHomeState(input, a) ==
  IF input.merchantState = "KA"
  THEN IntrastateSplit(input.gstRate, a, HalfGst(a.totalGstCents))
  ELSE InterstateSplit(input.gstRate, a)

SplitGst(input, a) ==
  IF input.merchantState = input.customerState
  THEN IntrastateSplit(input.gstRate, a, HalfGst(a.totalGstCents))
  ELSE InterstateSplit(input.gstRate, a)

calculateGST(input) == SplitGst(input, GstAmounts(input))

(***************************************************************************)
(* GSTIN validation.  A string is a sequence of one-character strings.     *)
(***************************************************************************)
Digits == {"0", "1", "2", "3", "4", "5", "6", "7", "8", "9"}
Upper == {"A", "B", "C", "D", "E", "F", "G", "H", "I", "J", "K", "L", "M",
          "N", "O", "P", "Q", "R", "S", "T", "U", "V", "W", "X", "Y", "Z"}

\* [0-9A-Z] in place of [1-9A-Z] for the entity character
gstinRegexAnyEntity ==
  << [class |-> Digits, count |-> 2],
     [class |-> Upper, count |-> 5],
     [class |-> Digits, count |-> 4],
     [class |-> Upper, count |-> 1],
     [class |-> Digits \cup Upper, count |-> 1],
     [class |-> {"Z"}, count |-> 1],
     [class |-> Digits \cup Upper, count |-> 1] >>

\* /^[0-9]{2}[A-Z]{5}[0-9]{4}[A-Z]{1}[1-9A-Z]{1}Z[0-9A-Z]{1}$/ as the list of
\* its atoms: a character class and its repeat count
gstinRegex ==
  << [class |-> Digits, count |-> 2],
     [class |-> Upper, count |-> 5],
     [class |-> Digits, count |-> 4],
     [class |-> Upper, count |-> 1],
     [class |-> (Digits \ {"0"}) \cup Upper, count |-> 1],
     [class |-> {"Z"}, count |-> 1],
     [class |-> Digits \cup Upper, count |-> 1] >>

\* RegExp.prototype.test for a pattern anchored by ^ and $: the atoms must
\* consume the whole string
RECURSIVE RegexTest(_, _)
RegexTest(atoms, s) ==
  IF atoms = << >> THEN s = << >>
  ELSE LET n == Head(atoms).count
       IN /\ Len(s) >= n
          /\ \A i \in 1..n : s[i] \in Head(atoms).class
          /\ RegexTest(Tail(atoms), SubSeq(s, n + 1, Len(s)))

\* String.prototype.substring(start, end) for 0 <= start <= end
Substring(s, start, end) ==
  SubSeq(s, start + 1, IF end < Len(s) THEN end ELSE Len(s))

GSTINLength == 15

validateGSTIN(gstin) ==
  IF gstin = << >> \/ Len(gstin) # GSTINLength THEN FALSE
  ELSE RegexTest(gstinRegex, gstin)

Null == <<"null">>

\* the validation left out
getStateCodeUnvalidated(gstin) == Substring(gstin, 0, 2)

getStateCodeFromGSTIN(gstin) ==
  IF ~validateGSTIN(gstin) THEN Null ELSE Substring(gstin, 0, 2)

\* the PAN group cut one character short: substring(2, 6)
formatGSTINShortGroup(gstin) ==
  IF Len(gstin) # GSTINLength THEN gstin
  ELSE Substring(gstin, 0, 2) \o <<" ">> \o Substring(gstin, 2, 6) \o <<" ">>
       \o Substring(gstin, 7, 11) \o <<" ">> \o Substring(gstin, 11, 12)
       \o <<" ">> \o Substring(gstin, 12, 13) \o <<" ">>
       \o Substring(gstin, 13, 14) \o <<" ">> \o Substring(gstin, 14, 15)

\* the template literal of formatGSTIN: seven substrings joined by spaces
formatGSTIN(gstin) ==
  IF Len(gstin) # GSTINLength THEN gstin
  ELSE Substring(gstin, 0, 2) \o <<" ">> \o Substring(gstin, 2, 7) \o <<" ">>
       \o Substring(gstin, 7, 11) \o <<" ">> \o Substring(gstin, 11, 12)
       \o <<" ">> \o Substring(gstin, 12, 13) \o <<" ">>
       \o Substring(gstin, 13, 14) \o <<" ">> \o Substring(gstin, 14, 15)

Undefined == <<"undefined">>

\* ToBoolean of a string | null | undefined: the empty string, null and
\* undefined are falsy
Truthy(gstin) == gstin # << >> /\ gstin # Null /\ gstin # Undefined

\* gstin && (validateGSTIN(gstin) ? 'B2B' : 'B2C'): a falsy operand comes
\* back in place of a type
getCustomerTypeOperand(gstin) ==
  IF ~Truthy(gstin) THEN ""
  ELSE IF validateGSTIN(gstin) THEN "B2B" ELSE "B2C"

\* gstin && validateGSTIN(gstin) ? 'B2B' : 'B2C'
getCustomerType(gstin) ==
  IF Truthy(gstin) /\ validateGSTIN(gstin) THEN "B2B" ELSE "B2C"

(***************************************************************************)
(* The rate limiter.  rateLimitStore is a Map from identifier to          *)
(* {count, resetTime}: here a function whose domain is the set of keys.    *)
(***************************************************************************)
Put(store, identifier, record) ==
  [k \in DOMAIN store \cup {identifier} |->
     IF k = identifier THEN record ELSE store[k]]

\* !record || now > record.resetTime
NoLiveRecord(store, identifier, time) ==
  identifier \notin DOMAIN store \/ time > store[identifier].resetTime

\* record.count > limit in place of record.count >= limit
AtLimitOffByOne(record, limit) == record.count > limit

\* record.count >= limit
AtLimit(record, limit) == record.count >= limit

\* the value rateLimit returns
rateLimitResult(store, identifier, limit, windowMs, time) ==
  IF NoLiveRecord(store, identifier, time)
  THEN [success |-> TRUE, remaining |-> limit - 1, resetTime |-> time + windowMs]
  ELSE IF AtLimit(store[identifier], limit)
  THEN [success |-> FALSE, remaining |-> 0,
        resetTime |-> store[identifier].resetTime]
  ELSE [success |-> TRUE,
        remaining |-> limit - (store[identifier].count + 1),
        resetTime |-> store[identifier].resetTime]

\* the denied call counted as well: record.count++ before the test
rateLimitStoreCountsDenied(store, identifier, limit, windowMs, time) ==
  IF NoLiveRecord(store, identifier, time)
  THEN Put(store, identifier, [count |-> 1, resetTime |-> time + windowMs])
  ELSE Put(store, identifier,
           [count |-> store[identifier].count + 1,
            resetTime |-> store[identifier].resetTime])

\* an expired record counted on: record.count++ on every admitted call
rateLimitStoreKeepWindow(store, identifier, limit, windowMs, time) ==
  IF identifier \notin DOMAIN store
  THEN Put(store, identifier, [count |-> 1, resetTime |-> time + windowMs])
  ELSE IF time <= store[identifier].resetTime
          /\ AtLimit(store[identifier], limit)
  THEN store
  ELSE Put(store, identifier,
           [count |-> store[identifier].count + 1,
            resetTime |-> store[identifier].resetTime])

\* the store rateLimit leaves behind
rateLimitStoreAfter(store, identifier, limit, windowMs, time) ==
  IF NoLiveRecord(store, identifier, time)
  THEN Put(store, identifier, [count |-> 1, resetTime |-> time + windowMs])
  ELSE IF AtLimit(store[identifier], limit)
  THEN store
  ELSE Put(store, identifier,
           [count |-> store[identifier].count + 1,
            resetTime |-> store[identifier].resetTime])

\* Math.max(0, n)
Max0(n) == IF n > 0 THEN n ELSE 0

\* the window getRateLimitStatus reports when there is no live record
StatusWindowMs == 60000

\* the value getRateLimitStatus returns
getRateLimitStatus(store, identifier, limit, time) ==
  IF NoLiveRecord(store, identifier, time)
  THEN [remaining |-> limit, resetTime |-> time + StatusWindowMs]
  ELSE [remaining |-> Max0(limit - store[identifier].count),
        resetTime |-> store[identifier].resetTime]

\* the callback deleting a record at its reset time already
cleanupAtReset(store, time) ==
  [k \in {i \in DOMAIN store : ~(time >= store[i].resetTime)} |-> store[k]]

\* the setInterval callback: every record with now > resetTime is deleted
cleanup(store, time) ==
  [k \in {i \in DOMAIN store : ~(time > store[i].resetTime)} |-> store[k]]

\* req.headers.get('x-forwarded-for') || req.headers.get('x-real-ip') ||
\* 'unknown': a header that is absent or empty is ""
identifierOf(headers) ==
  IF headers.xForwardedFor # "" THEN headers.xForwardedFor
  ELSE IF headers.xRealIp # "" THEN headers.xRealIp
  ELSE "unknown"

\* rateLimitMiddleware: the store it leaves, and whether it answers 429
middlewareStore(store, headers, limit, windowMs, time, env) ==
  IF env = "development" THEN store
  ELSE rateLimitStoreAfter(store, identifierOf(headers), limit, windowMs, time)

middlewareBlocks(store, headers, limit, windowMs, time, env) ==
  /\ env # "development"
  /\ ~rateLimitResult(store, identifierOf(headers), limit, windowMs,
                      time).success

(***************************************************************************)
(* The admin API.  A request carries the session of its sender: NoUser, or *)
(* a Clerk user id.  A response is its status and error text, together     *)
(* with what the handler did on the way: whether it read the request body  *)
(* and whether it sent anything to the database.                           *)
(***************************************************************************)
NoUser == ""
NoError == ""
ADMIN_USER_IDS == {"user_admin"}
UserIds == {"user_admin", "user_other"}

\* isUserAdmin of admin-utils: ADMIN_USER_IDS.includes(userId.trim())
isUserAdmin(userId) == userId # NoUser /\ userId \in ADMIN_USER_IDS

\* the signed-in check left out: every signed-in user passes
requireAdminAnyUser(userId) ==
  IF userId = NoUser THEN "Unauthorized" ELSE NoError

\* the message of the Error requireAdmin throws, NoError when it returns
requireAdmin(userId) ==
  IF userId = NoUser THEN "Unauthorized"
  ELSE IF ~isUserAdmin(userId) THEN "Forbidden - Admin access required"
  ELSE NoError

Response(status, error, bodyRead, dbTouched) ==
  [status |-> status, error |-> error, bodyRead |-> bodyRead,
   dbTouched |-> dbTouched]

\* the 429 of rateLimitMiddleware
TooManyRequests == Response(429, "Too many requests", FALSE, FALSE)

\* the catch block of a guarded handler, and the inline answers of the
\* merchant-gst-config handlers: 401 for 'Unauthorized', 403 otherwise
AccessDenied(error) ==
  Response(IF error = "Unauthorized" THEN 401 ELSE 403, error, FALSE, FALSE)

\* what a handler can answer once the caller is let through: 400 on a bad
\* parameter or body, 500 when the body cannot be parsed or the database
\* reports an error, 200 otherwise; 200 is given only after the database
\* was used
Served(readsBody) ==
  {Response(200, NoError, readsBody, TRUE)}
  \cup {Response(status, "error", readsBody, dbTouched) :
          status \in {400, 500}, dbTouched \in BOOLEAN}

\* the handlers that start with await requireAdmin() and nothing before it
GuardedHandlers ==
  [route : {"subscriptions"}, method : {"GET", "POST", "PATCH"}]
  \cup [route : {"projects", "prompts"}, method : {"GET", "POST", "DELETE"}]

\* the handlers that call req.json()
ReadsBody(method) == method \in {"POST", "PATCH"}

\* every handler of the users route limited like GET
UsersLimitOfGet == [GET |-> 100, POST |-> 100, DELETE |-> 100]

\* rateLimitMiddleware(req, 100 | 50 | 20, 60000) of the users route
UsersLimit == [GET |-> 100, POST |-> 50, DELETE |-> 20]
UsersWindowMs == 60000

(***************************************************************************)
(* The callers.  calcVars: a caller of calculateGST holds an input, calls  *)
(* the calculator and may feed the result back with the inclusive flag     *)
(* flipped (a round trip).  gstinVars: a caller holds an identifier        *)
(* string, edits it, and asks for its validity and its state code.         *)
(* limiterVars: the module state of the rate limiter, the clock, and what  *)
(* the callers of rateLimit have seen.  routeVars: the environment of the  *)
(* admin API (NODE_ENV, the sessions that send requests), the latest       *)
(* request with its response, and the count of the requests of one watched *)
(* users handler that passed the rate limit in the current window.         *)
(* guardVars: the AdminGuard component in a browser: what useAuth gives    *)
(* it, its isAdmin state, whether its effect has to run, the checks in     *)
(* flight, the route it pushed, whether it is still mounted, and the user  *)
(* whose check came back with success last.                                *)
(***************************************************************************)
VARIABLES input, calls, gstin, edits, valid, stateCode, formatted,
          customerType, rateLimitStore, now, admitted, lastCall, lastStatus,
          uncleaned, configs, posts, lastGet,
          nodeEnv, visitors, lastRequest, watched, passed,
          auth, isAdmin, effectDue, fetches, pushed, mounted, approvedFor

calcVars == <<input, calls>>
gstinVars == <<gstin, edits, valid, stateCode, formatted, customerType>>
limiterVars == <<rateLimitStore, now, admitted, lastCall, lastStatus,
                 uncleaned>>
routeVars == <<nodeEnv, visitors, lastRequest, watched, passed>>
libVars == <<calcVars, gstinVars>>
guardVars == <<auth, isAdmin, effectDue, fetches, pushed, mounted, approvedFor>>
configVars == <<configs, posts, lastGet>>
appVars == <<limiterVars, routeVars, guardVars, configVars>>
vars == <<input, calls, gstin, edits, valid, stateCode, formatted,
          customerType, appVars>>

MaxAmount == 100
MaxTrips == 1
MaxEdits == 1

States == {"KA", "MH"}
GSTRates == {0, 5, 12, 18, 28}
ScenarioAmounts == {100000, 118000}
Amounts == (0..MaxAmount) \cup ScenarioAmounts

Inputs ==
  [amountCents : Amounts, gstRate : GSTRates, merchantState : States,
   customerState : States, isTaxInclusive : BOOLEAN]

\* the input of the second leg of a round trip: an inclusive call is
\* followed by an exclusive call on its base, an exclusive call by an
\* inclusive call on its total
RoundTripInput(call) ==
  [call.input EXCEPT
     !.amountCents = IF call.input.isTaxInclusive
                     THEN call.result.baseAmountCents
                     ELSE call.result.totalAmountCents,
     !.isTaxInclusive = ~call.input.isTaxInclusive]

Unset == << >>
Chars == {"0", "1", "9", "A", "M", "Z", "a", "z", " "}
SeedGSTINs ==
  { << >>,
    <<"2","2","A","A","A","A","A","0","0","0","0","A","1","Z","5">>,
    <<"2","9","A","B","C","D","E","1","2","3","4","F","Z","Z","Q">> }

IdleCalc == input = [amountCents |-> 0, gstRate |-> 0, merchantState |-> "KA",
                     customerState |-> "KA", isTaxInclusive |-> FALSE]
            /\ calls = << >>
IdleGSTIN == /\ gstin = << >> /\ edits = 0 /\ valid = Unset
             /\ stateCode = Unset /\ formatted = Unset /\ customerType = Unset

MaxNow == 2
MaxLimit == 2
MaxWindow == 1
Identifiers == {"203.0.113.7", "unknown"}
Limits == 0..MaxLimit
Windows == 1..MaxWindow

\* new Map()
EmptyStore == [k \in {} |-> [count |-> 0, resetTime |-> 0]]

IdleLimiter ==
  /\ rateLimitStore = EmptyStore
  /\ now = 0
  /\ admitted = [i \in Identifiers |-> [n |-> 0, limits |-> {}]]
  /\ lastCall = Unset
  /\ lastStatus = Unset
  /\ uncleaned = EmptyStore
IdleRoutes ==
  /\ nodeEnv = "production" /\ visitors = {}
  /\ lastRequest = Unset /\ watched = "none" /\ passed = 0
\* the first render: Clerk not loaded, useState(null), the effect of the
\* mount still to run
IdleGuard ==
  /\ auth = [userId |-> NoUser, isLoaded |-> FALSE]
  /\ isAdmin = Unset /\ effectDue = TRUE /\ fetches = {}
  /\ pushed = "" /\ mounted = TRUE /\ approvedFor = NoUser
MaxRequests == 2
Requests == 1..MaxRequests
IdleConfig ==
  /\ configs = << >>
  /\ posts = [r \in Requests |->
               [step |-> "idle", merchantGstin |-> << >>, status |-> 0]]
  /\ lastGet = Unset
IdleApp == IdleLimiter /\ IdleRoutes /\ IdleGuard /\ IdleConfig

Init == input \in Inputs /\ calls = << >> /\ IdleGSTIN /\ IdleApp

Calculate ==
  /\ calls = << >>
  /\ calls' = <<[input |-> input, result |-> calculateGST(input)]>>
  /\ UNCHANGED <<input, gstinVars, appVars>>

RoundTrip ==
  /\ calls # << >>
  /\ Len(calls) <= MaxTrips
  /\ LET next == RoundTripInput(calls[Len(calls)])
     IN calls' = Append(calls, [input |-> next, result |-> calculateGST(next)])
  /\ UNCHANGED <<input, gstinVars, appVars>>

Next == Calculate \/ RoundTrip

Spec == Init /\ [][Next]_vars

InitGSTIN ==
  /\ IdleCalc
  /\ gstin \in SeedGSTINs
  /\ edits = 0 /\ valid = Unset /\ stateCode = Unset
  /\ formatted = Unset /\ customerType = Unset
  /\ IdleApp

Untested == /\ valid = Unset /\ stateCode = Unset
            /\ formatted = Unset /\ customerType = Unset

ReplaceChar ==
  /\ Untested /\ edits < MaxEdits
  /\ \E i \in 1..Len(gstin), c \in Chars :
       gstin' = [gstin EXCEPT ![i] = c]
  /\ edits' = edits + 1
  /\ UNCHANGED <<valid, stateCode, formatted, customerType, calcVars, appVars>>

AppendChar ==
  /\ Untested /\ edits < MaxEdits
  /\ \E c \in Chars : gstin' = Append(gstin, c)
  /\ edits' = edits + 1
  /\ UNCHANGED <<valid, stateCode, formatted, customerType, calcVars, appVars>>

DropLast ==
  /\ Untested /\ edits < MaxEdits /\ gstin # << >>
  /\ gstin' = SubSeq(gstin, 1, Len(gstin) - 1)
  /\ edits' = edits + 1
  /\ UNCHANGED <<valid, stateCode, formatted, customerType, calcVars, appVars>>

Validate ==
  /\ valid = Unset
  /\ valid' = <<validateGSTIN(gstin)>>
  /\ UNCHANGED <<gstin, edits, stateCode, formatted, customerType, calcVars, appVars>>

GetStateCode ==
  /\ stateCode = Unset
  /\ stateCode' = <<getStateCodeFromGSTIN(gstin)>>
  /\ UNCHANGED <<gstin, edits, valid, formatted, customerType, calcVars, appVars>>

Format ==
  /\ formatted = Unset
  /\ formatted' = <<formatGSTIN(gstin)>>
  /\ UNCHANGED <<gstin, edits, valid, stateCode, customerType, calcVars, appVars>>

\* getCustomerType(gstin?: string | null): the caller passes the identifier
\* it holds, or null or undefined when it holds none
CustomerTypeArgs == {gstin, Null, Undefined}

GetCustomerType ==
  /\ customerType = Unset
  /\ \E arg \in CustomerTypeArgs :
       customerType' = <<[gstin |-> arg, type |-> getCustomerType(arg)]>>
  /\ UNCHANGED <<gstin, edits, valid, stateCode, formatted, calcVars, appVars>>

NextGSTIN ==
  \/ ReplaceChar \/ AppendChar \/ DropLast
  \/ Validate \/ GetStateCode \/ Format \/ GetCustomerType

SpecGSTIN == InitGSTIN /\ [][NextGSTIN]_vars

(***************************************************************************)
(* One caller over the whole library: it either calls calculateGST once,   *)
(* on any amount and any whole rate from 0 to 100, or works on an          *)
(* identifier string.                                                      *)
(***************************************************************************)
MaxRangeAmount == 12
RangeRates == 0..100
RangeInputs ==
  [amountCents : (0..MaxRangeAmount) \cup ScenarioAmounts,
   gstRate : RangeRates, merchantState : States, customerState : States,
   isTaxInclusive : BOOLEAN]

CalculateInRange ==
  /\ calls = << >>
  /\ gstin = << >> /\ edits = 0 /\ Untested
  /\ \E i \in RangeInputs :
       /\ input' = i
       /\ calls' = <<[input |-> i, result |-> calculateGST(i)]>>
  /\ UNCHANGED <<gstinVars, appVars>>

NextOps ==
  \/ CalculateInRange
  \/ calls = << >> /\ NextGSTIN

SpecOps == InitGSTIN /\ [][NextOps]_vars

(***************************************************************************)
(* The rate limiter under its callers: rateLimit is called for any         *)
(* identifier with any limit and window, the clock moves on between the    *)
(* calls, and the cleanup timer runs at any moment.  admitted counts, for  *)
(* each identifier, the calls admitted since its record was created and    *)
(* keeps the limit those calls were made with; lastCall is the latest call *)
(* and its return value; lastStatus is the value getRateLimitStatus has    *)
(* just returned, until anything else happens; uncleaned is the store the  *)
(* same calls of rateLimit leave when the cleanup never runs.              *)
(***************************************************************************)
\* the limits of the calls of a window: the one limit while all calls agree,
\* all of Limits once two calls differed
LimitsWith(limits, limit) == IF limits = {limit} THEN limits ELSE Limits

InitRateLimit == IdleCalc /\ IdleGSTIN /\ IdleApp

RateLimit ==
  /\ \E identifier \in Identifiers, limit \in Limits, windowMs \in Windows :
       /\ rateLimitStore' =
            rateLimitStoreAfter(rateLimitStore, identifier, limit, windowMs, now)
       /\ lastCall' =
            <<[identifier |-> identifier, limit |-> limit,
               windowMs |-> windowMs, now |-> now,
               result |-> rateLimitResult(rateLimitStore, identifier,
                                          limit, windowMs, now)]>>
       /\ admitted' =
            [admitted EXCEPT ![identifier] =
               IF NoLiveRecord(rateLimitStore, identifier, now)
               THEN [n |-> 1, limits |-> {limit}]
               ELSE IF rateLimitResult(rateLimitStore, identifier, limit,
                                       windowMs, now).success
               THEN [n |-> @.n + 1, limits |-> LimitsWith(@.limits, limit)]
               ELSE [n |-> @.n, limits |-> LimitsWith(@.limits, limit)]]
       /\ uncleaned' =
            rateLimitStoreAfter(uncleaned, identifier, limit, windowMs, now)
  /\ lastStatus' = Unset
  /\ UNCHANGED <<now, libVars, configVars, guardVars, routeVars>>

\* the limits a status is asked about: below and above every count
StatusLimits == {0, MaxLimit}

GetRateLimitStatus ==
  /\ \E identifier \in Identifiers, limit \in StatusLimits :
       lastStatus' =
         <<[identifier |-> identifier, limit |-> limit, now |-> now,
            result |-> getRateLimitStatus(rateLimitStore, identifier, limit,
                                          now)]>>
  /\ UNCHANGED <<rateLimitStore, now, admitted, lastCall, uncleaned, libVars, configVars,
                 guardVars, routeVars>>

\* Date.now() between two calls
Tick ==
  /\ now < MaxNow
  /\ now' = now + 1
  /\ lastStatus' = Unset
  /\ UNCHANGED <<rateLimitStore, admitted, lastCall, uncleaned, libVars, configVars,
                 guardVars, routeVars>>

Cleanup ==
  /\ rateLimitStore' = cleanup(rateLimitStore, now)
  /\ lastStatus' = Unset
  /\ UNCHANGED <<now, admitted, lastCall, uncleaned, libVars, configVars, guardVars,
                 routeVars>>

NextRateLimit == RateLimit \/ GetRateLimitStatus \/ Tick \/ Cleanup

SpecRateLimit == InitRateLimit /\ [][NextRateLimit]_vars

(***************************************************************************)
(* The admin API under its clients.  Each request is handled by one        *)
(* handler; the clock moves on between requests.                           *)
(***************************************************************************)
MaxClock == 60001
Delays == {UsersWindowMs \div 2, UsersWindowMs + 1}
Headers ==
  {[xForwardedFor |-> "203.0.113.7", xRealIp |-> ""],
   [xForwardedFor |-> "", xRealIp |-> "203.0.113.7"]}
Sessions == {NoUser} \cup UserIds

InitRoutes ==
  /\ IdleCalc /\ IdleGSTIN /\ IdleLimiter /\ IdleGuard /\ IdleConfig
  /\ nodeEnv \in {"production", "development"}
  /\ visitors = Sessions
  /\ lastRequest = Unset /\ watched = "none" /\ passed = 0

Request(route, method, userId, response) ==
  <<[route |-> route, method |-> method, userId |-> userId,
     response |-> response]>>

\* the requests of the watched handler that passed the rate limit since the
\* record of the client was created
PassedAfter(method, headers) ==
  IF middlewareBlocks(rateLimitStore, headers, UsersLimit[method],
                      UsersWindowMs, now, nodeEnv)
  THEN passed
  ELSE IF NoLiveRecord(rateLimitStore, identifierOf(headers), now)
  THEN (IF watched = method THEN 1 ELSE 0)
  ELSE (IF watched = method THEN passed + 1 ELSE passed)

\* GET, POST and DELETE of the users route: rateLimitMiddleware, then
\* requireAdmin, then the work
UsersRequest ==
  /\ \E method \in DOMAIN UsersLimit, headers \in Headers, userId \in visitors :
       /\ rateLimitStore' =
            middlewareStore(rateLimitStore, headers, UsersLimit[method],
                            UsersWindowMs, now, nodeEnv)
       /\ passed' = PassedAfter(method, headers)
       /\ IF middlewareBlocks(rateLimitStore, headers, UsersLimit[method],
                              UsersWindowMs, now, nodeEnv)
          THEN lastRequest' = Request("users", method, userId, TooManyRequests)
          ELSE IF requireAdmin(userId) # NoError
          THEN lastRequest' = Request("users", method, userId,
                                      AccessDenied(requireAdmin(userId)))
          ELSE \E response \in Served(ReadsBody(method)) :
                 lastRequest' = Request("users", method, userId, response)
  /\ UNCHANGED <<now, admitted, lastCall, lastStatus, uncleaned, libVars, configVars,
                 guardVars,
                 nodeEnv, visitors, watched>>

\* the handlers of subscriptions, projects and prompts: requireAdmin, then
\* the work
AdminRequest ==
  /\ \E handler \in GuardedHandlers, userId \in visitors :
       IF requireAdmin(userId) # NoError
       THEN lastRequest' = Request(handler.route, handler.method, userId,
                                   AccessDenied(requireAdmin(userId)))
       ELSE \E response \in Served(ReadsBody(handler.method)) :
              lastRequest' =
                Request(handler.route, handler.method, userId, response)
  /\ UNCHANGED <<limiterVars, libVars, configVars, guardVars, nodeEnv, visitors, watched, passed>>

\* GET and POST of merchant-gst-config: the session and the allow-list are
\* tested in the handler; here a request is its response, and the rows it
\* reads and writes are followed step by step under SpecGstConfig
GstConfigRequest ==
  /\ \E method \in {"GET", "POST"}, userId \in visitors :
       IF userId = NoUser
       THEN lastRequest' = Request("merchant-gst-config", method, userId,
                                   AccessDenied("Unauthorized"))
       ELSE IF userId \notin ADMIN_USER_IDS
       THEN lastRequest' =
              Request("merchant-gst-config", method, userId,
                      AccessDenied("Forbidden - Admin access required"))
       ELSE \E response \in Served(ReadsBody(method)) :
              lastRequest' =
                Request("merchant-gst-config", method, userId, response)
  /\ UNCHANGED <<limiterVars, libVars, configVars, guardVars, nodeEnv, visitors, watched, passed>>

\* POST of cleanup-failed-checkouts: supabase.rpc('cleanup_failed_checkouts')
\* and 500 or 200 after it
CleanupCheckoutsRequest ==
  /\ \E userId \in visitors, status \in {200, 500} :
       lastRequest' =
         Request("cleanup-failed-checkouts", "POST", userId,
                 Response(status, IF status = 200 THEN NoError ELSE "error",
                          FALSE, TRUE))
  /\ UNCHANGED <<limiterVars, libVars, configVars, guardVars, nodeEnv, visitors, watched, passed>>

\* GET of check-user-subscription-status: 400 without the email parameter,
\* else the users and subscriptions tables are read
SubscriptionStatusRequest ==
  /\ \E userId \in visitors, hasEmail \in BOOLEAN, status \in {200, 500} :
       lastRequest' =
         Request("check-user-subscription-status", "GET", userId,
                 IF ~hasEmail THEN Response(400, "error", FALSE, FALSE)
                 ELSE Response(status,
                               IF status = 200 THEN NoError ELSE "error",
                               FALSE, TRUE))
  /\ UNCHANGED <<limiterVars, libVars, configVars, guardVars, nodeEnv, visitors, watched, passed>>

\* Date.now() between two requests
Advance ==
  /\ \E delay \in Delays : now + delay <= MaxClock /\ now' = now + delay
  /\ UNCHANGED <<rateLimitStore, admitted, lastCall, lastStatus, uncleaned,
                 libVars, configVars,
                 guardVars, routeVars>>

NextRoutes ==
  \/ UsersRequest \/ AdminRequest \/ GstConfigRequest
  \/ CleanupCheckoutsRequest \/ SubscriptionStatusRequest
  \/ Advance \/ Cleanup

SpecRoutes == InitRoutes /\ [][NextRoutes]_vars

(***************************************************************************)
(* The users route under one client in production: the requests of one of  *)
(* its three handlers are counted.                                         *)
(***************************************************************************)
InitUsers ==
  /\ IdleCalc /\ IdleGSTIN /\ IdleLimiter /\ IdleGuard /\ IdleConfig
  /\ nodeEnv = "production"
  /\ visitors = {NoUser}
  /\ lastRequest = Unset /\ watched \in DOMAIN UsersLimit /\ passed = 0

NextUsers == UsersRequest \/ Advance \/ Cleanup

SpecUsers == InitUsers /\ [][NextUsers]_vars

(***************************************************************************)
(* AdminGuard in a browser.  Clerk loads and the session changes at any    *)
(* moment (sign-in, sign-out, another user); React renders on every change *)
(* of state and runs the effect after a render in which userId or isLoaded *)
(* changed; each fetch of /api/admin/check is answered at any later moment *)
(* for the session it was sent with, or fails.                             *)
(***************************************************************************)
InitGuard == IdleCalc /\ IdleGSTIN /\ IdleApp

\* what the component returns: the spinner, null, or the children
Rendered ==
  IF ~auth.isLoaded \/ isAdmin = Unset THEN "spinner"
  ELSE IF ~isAdmin[1] THEN "null"
  ELSE "children"

\* useAuth(): Clerk finishes loading, or the session changes
AuthChange ==
  /\ mounted
  /\ \E next \in [userId : Sessions, isLoaded : BOOLEAN] :
       /\ next # auth
       /\ ~next.isLoaded => next.userId = NoUser
       /\ auth' = next
  /\ effectDue' = TRUE
  /\ UNCHANGED <<isAdmin, fetches, pushed, mounted, approvedFor,
                 libVars, configVars, limiterVars, routeVars>>

\* the body of useEffect
RunEffect ==
  /\ mounted /\ effectDue
  /\ effectDue' = FALSE
  /\ IF ~auth.isLoaded THEN UNCHANGED <<fetches, pushed>>
     ELSE IF auth.userId = NoUser
     THEN pushed' = "/sign-in" /\ UNCHANGED fetches
     ELSE fetches' = fetches \cup {auth.userId} /\ UNCHANGED pushed
  /\ UNCHANGED <<auth, isAdmin, mounted, approvedFor,
                 libVars, configVars, limiterVars, routeVars>>

\* GET /api/admin/check for the session of the fetch, and the .then and
\* .catch callbacks of the fetch
CheckResponse ==
  /\ \E userId \in fetches, delivered \in BOOLEAN :
       /\ fetches' = fetches \ {userId}
       /\ IF ~mounted THEN UNCHANGED <<isAdmin, pushed, approvedFor>>
          ELSE IF delivered /\ isUserAdmin(userId)
          THEN /\ isAdmin' = <<TRUE>>
               /\ approvedFor' = userId
               /\ UNCHANGED pushed
          ELSE /\ isAdmin' = <<FALSE>>
               /\ pushed' = "/dashboard"
               /\ UNCHANGED approvedFor
  /\ UNCHANGED <<auth, effectDue, mounted, libVars, configVars, limiterVars, routeVars>>

\* the navigation started by router.push replaces the page
Navigate ==
  /\ mounted /\ pushed # ""
  /\ mounted' = FALSE
  /\ UNCHANGED <<auth, isAdmin, effectDue, fetches, pushed, approvedFor,
                 libVars, configVars, limiterVars, routeVars>>

NextGuard == AuthChange \/ RunEffect \/ CheckResponse \/ Navigate

SpecGuard == InitGuard /\ [][NextGuard]_vars

(***************************************************************************)
(* The merchant_gst_config table and the requests of the route that reads  *)
(* and writes it.  A POST is served in three steps with an await between   *)
(* them: the checks of the session, the allow-list and the body; the       *)
(* update that deactivates every active row; the insert of the new active  *)
(* row.  The steps of concurrent requests interleave in any order.         *)
(* configs is the table in insertion order, posts the position of each     *)
(* POST, lastGet the response of the GET that has just been served.        *)
(***************************************************************************)
\* the keys of INDIAN_STATES
INDIAN_STATES ==
  {"AP", "AR", "AS", "BR", "CG", "GA", "GJ", "HR", "HP", "JK", "JH", "KA",
   "KL", "MP", "MH", "MN", "ML", "MZ", "NL", "OD", "PB", "RJ", "SK", "TN",
   "TG", "TR", "UP", "UK", "WB", "AN", "CH", "DH", "DL", "LD", "PY", "LA"}

\* the bodies sent: merchantGstin absent, too short or a seed; merchantState
\* a key of INDIAN_STATES or not; the other required fields all present or not
Bodies ==
  [merchantGstin : SeedGSTINs \cup {<<"2", "2">>},
   merchantState : {"KA", "XX"},
   complete : BOOLEAN]

\* the row a table starts with
FirstConfig ==
  [id |-> 1,
   merchant_gstin |->
     <<"2","9","A","B","C","D","E","1","2","3","4","F","Z","Z","Q">>,
   is_active |-> TRUE]

InitGstConfig ==
  /\ IdleCalc /\ IdleGSTIN /\ IdleLimiter /\ IdleRoutes /\ IdleGuard
  /\ configs \in {<< >>, <<FirstConfig>>}
  /\ posts = [r \in Requests |->
               [step |-> "idle", merchantGstin |-> << >>, status |-> 0]]
  /\ lastGet = Unset

\* the response a POST ends with
Ended(post, status) == [post EXCEPT !.step = "done", !.status = status]

\* .eq('is_active', true): the ids of the active rows
ActiveIds == {configs[i].id : i \in {j \in DOMAIN configs : configs[j].is_active}}

\* .select('*').eq('is_active', true).single(): the row when exactly one
\* row is active, else an error and no data
SingleActive ==
  IF Cardinality(ActiveIds) = 1 THEN <<CHOOSE id \in ActiveIds : TRUE>>
  ELSE << >>

\* POST up to createServerSupabaseClient(): 401, 403, 400, or on to the
\* update
PostChecks(r) ==
  /\ posts[r].step = "idle"
  /\ \E userId \in Sessions, body \in Bodies :
       posts' =
         [posts EXCEPT ![r] =
            IF userId = NoUser THEN Ended(@, 401)
            ELSE IF userId \notin ADMIN_USER_IDS THEN Ended(@, 403)
            ELSE IF body.merchantGstin = << >> \/ ~body.complete
            THEN Ended(@, 400)
            ELSE IF ~validateGSTIN(body.merchantGstin) THEN Ended(@, 400)
            ELSE IF body.merchantState \notin INDIAN_STATES THEN Ended(@, 400)
            ELSE [step |-> "update", merchantGstin |-> body.merchantGstin,
                  status |-> 0]]
  /\ lastGet' = Unset
  /\ UNCHANGED <<configs, libVars, limiterVars, routeVars, guardVars>>

\* .update({ is_active: false }).eq('is_active', true)
PostDeactivateAll(r) ==
  /\ posts[r].step = "update"
  /\ configs' = [i \in DOMAIN configs |-> [configs[i] EXCEPT !.is_active = FALSE]]
  /\ posts' = [posts EXCEPT ![r].step = "insert"]
  /\ lastGet' = Unset
  /\ UNCHANGED <<libVars, limiterVars, routeVars, guardVars>>

\* .insert({ ..., is_active: true }).select().single(): the new row and
\* 200, or an error of the database and 500
PostInsert(r) ==
  /\ posts[r].step = "insert"
  /\ \E error \in BOOLEAN :
       IF error
       THEN /\ posts' = [posts EXCEPT ![r] = Ended(@, 500)]
            /\ UNCHANGED configs
       ELSE /\ configs' =
                 Append(configs, [id |-> Len(configs) + 1,
                                  merchant_gstin |-> posts[r].merchantGstin,
                                  is_active |-> TRUE])
            /\ posts' = [posts EXCEPT ![r] = Ended(@, 200)]
  /\ lastGet' = Unset
  /\ UNCHANGED <<libVars, limiterVars, routeVars, guardVars>>

\* GET: 401, 403, or 200 with the single active row or with null
GetConfig ==
  /\ \E userId \in Sessions :
       lastGet' =
         <<[userId |-> userId,
            status |-> IF userId = NoUser THEN 401
                       ELSE IF userId \notin ADMIN_USER_IDS THEN 403
                       ELSE 200,
            merchantConfig |-> IF userId \in ADMIN_USER_IDS
                               THEN SingleActive ELSE << >>]>>
  /\ UNCHANGED <<configs, posts, libVars, limiterVars, routeVars, guardVars>>

NextGstConfig ==
  \/ \E r \in Requests : PostChecks(r)
  \/ \E r \in Requests : PostDeactivateAll(r)
  \/ \E r \in Requests : PostInsert(r)
  \/ GetConfig

SpecGstConfig == InitGstConfig /\ [][NextGstConfig]_vars

(***************************************************************************)
(* Properties of calculateGST, over the calls made so far.                 *)
(***************************************************************************)
Intrastate(c) == c.input.merchantState = c.input.customerState
Abs(n) == IF n < 0 THEN -n ELSE n

\* C1: in every result totalAmountCents = baseAmountCents + totalGstCents.
C1_TotalIsBasePlusGst ==
  \A i \in DOMAIN calls :
    calls[i].result.totalAmountCents =
      calls[i].result.baseAmountCents + calls[i].result.totalGstCents

C1_Witness ==
  \E i \in DOMAIN calls :
    /\ calls[i].input.isTaxInclusive
    /\ calls[i].result.totalGstCents > 0
    /\ calls[i].result.baseAmountCents > 0

C1_WitnessExclusive ==
  \E i \in DOMAIN calls :
    ~calls[i].input.isTaxInclusive /\ calls[i].result.totalGstCents > 0

\* C2: with merchantState = customerState the two split components add up
\* to totalGstCents, igstAmountCents is 0 and the components differ by at
\* most one minor unit.
C2_IntrastateSplitExact ==
  \A i \in DOMAIN calls :
    Intrastate(calls[i]) =>
      /\ calls[i].result.cgstAmountCents + calls[i].result.sgstAmountCents
           = calls[i].result.totalGstCents
      /\ calls[i].result.igstAmountCents = 0
      /\ Abs(calls[i].result.cgstAmountCents - calls[i].result.sgstAmountCents) <= 1

C2_Witness ==
  \E i \in DOMAIN calls :
    Intrastate(calls[i]) /\ calls[i].result.totalGstCents % 2 = 1

\* C3: with merchantState # customerState igstAmountCents = totalGstCents
\* and both split components are 0; 100000 at 18 percent, exclusive, gives
\* igst 18000 and total 118000.
C3_InterstateUnified ==
  \A i \in DOMAIN calls :
    ~Intrastate(calls[i]) =>
      /\ calls[i].result.igstAmountCents = calls[i].result.totalGstCents
      /\ calls[i].result.cgstAmountCents = 0
      /\ calls[i].result.sgstAmountCents = 0
      /\ (calls[i].input.amountCents = 100000 /\ calls[i].input.gstRate = 18
          /\ ~calls[i].input.isTaxInclusive)
         => (calls[i].result.igstAmountCents = 18000
             /\ calls[i].result.totalAmountCents = 118000)

C3_Witness ==
  \E i \in DOMAIN calls :
    /\ ~Intrastate(calls[i])
    /\ calls[i].input.amountCents = 100000 /\ calls[i].input.gstRate = 18
    /\ ~calls[i].input.isTaxInclusive
    /\ calls[i].result.igstAmountCents = 18000

\* C4 as claimed: in the intrastate regime the leftover minor unit of an odd
\* totalGstCents goes to the second component,
\* sgstAmountCents = cgstAmountCents + (totalGstCents mod 2).
C4_LeftoverToSecond ==
  \A i \in DOMAIN calls :
    Intrastate(calls[i]) =>
      /\ calls[i].result.sgstAmountCents >= calls[i].result.cgstAmountCents
      /\ calls[i].result.sgstAmountCents =
           calls[i].result.cgstAmountCents + (calls[i].result.totalGstCents % 2)

\* C4 as amended: the leftover minor unit of an odd totalGstCents goes to
\* the first component, cgstAmountCents = sgstAmountCents +
\* (totalGstCents mod 2), and it is never dropped.
C4_LeftoverToFirst ==
  \A i \in DOMAIN calls :
    Intrastate(calls[i]) =>
      /\ calls[i].result.cgstAmountCents >= calls[i].result.sgstAmountCents
      /\ calls[i].result.cgstAmountCents =
           calls[i].result.sgstAmountCents + (calls[i].result.totalGstCents % 2)
      /\ calls[i].result.cgstAmountCents + calls[i].result.sgstAmountCents
           = calls[i].result.totalGstCents

C4_Witness ==
  \E i \in DOMAIN calls :
    /\ Intrastate(calls[i])
    /\ calls[i].result.totalGstCents % 2 = 1
    /\ calls[i].result.cgstAmountCents = calls[i].result.sgstAmountCents + 1

\* the quotient n / d rounded to the nearest integer, a half going up
RoundHalfUp(n, d) == (2 * n + d) \div (2 * d)

\* C5: base and tax follow the reference rule with round-half-up on the
\* exact quotient: inclusive gives total = amount, base =
\* roundHalfUp(amount * 100 / (100 + rate)), tax = amount - base; exclusive
\* gives base = amount, tax = roundHalfUp(amount * rate / 100), total =
\* base + tax.
C5_ReferenceRule ==
  \A i \in DOMAIN calls :
    LET inp == calls[i].input
        out == calls[i].result
    IN IF inp.isTaxInclusive
       THEN /\ out.totalAmountCents = inp.amountCents
            /\ out.baseAmountCents =
                 RoundHalfUp(inp.amountCents * 100, 100 + inp.gstRate)
            /\ out.totalGstCents = inp.amountCents - out.baseAmountCents
       ELSE /\ out.baseAmountCents = inp.amountCents
            /\ out.totalGstCents = RoundHalfUp(inp.amountCents * inp.gstRate, 100)
            /\ out.totalAmountCents = out.baseAmountCents + out.totalGstCents

\* C6: an inclusive call on a total T followed by an exclusive call on the
\* derived base returns T when T * 100 is divisible by 100 + rate, and a
\* total within one minor unit of T otherwise.
C6_InclusiveThenExclusive ==
  \A i \in DOMAIN calls :
    (i > 1 /\ calls[i - 1].input.isTaxInclusive) =>
      LET T  == calls[i - 1].input.amountCents
          T2 == calls[i].result.totalAmountCents
      IN /\ calls[i].input.amountCents = calls[i - 1].result.baseAmountCents
         /\ ~calls[i].input.isTaxInclusive
         /\ IF (T * 100) % (100 + calls[i].input.gstRate) = 0
            THEN T2 = T
            ELSE Abs(T2 - T) <= 1

C6_Witness ==
  \E i \in DOMAIN calls :
    /\ i > 1 /\ calls[i - 1].input.isTaxInclusive
    /\ calls[i].input.gstRate > 0
    /\ calls[i - 1].input.amountCents > 0
    /\ (calls[i - 1].input.amountCents * 100) % (100 + calls[i].input.gstRate) = 0
    /\ calls[i].result.totalAmountCents = calls[i - 1].input.amountCents

C6_WitnessDrift ==
  \E i \in DOMAIN calls :
    /\ i > 1 /\ calls[i - 1].input.isTaxInclusive
    /\ Abs(calls[i].result.totalAmountCents - calls[i - 1].input.amountCents) = 1

\* C7: an exclusive call on a base B followed by an inclusive call on the
\* resulting total returns base B and the same tax; 100000 at 18 percent
\* gives 118000, and 118000 inclusive gives base 100000, tax 18000, cgst
\* 9000 and sgst 9000.
C7_ExclusiveThenInclusive ==
  \A i \in DOMAIN calls :
    (i > 1 /\ ~calls[i - 1].input.isTaxInclusive) =>
      /\ calls[i].input.amountCents = calls[i - 1].result.totalAmountCents
      /\ calls[i].input.isTaxInclusive
      /\ calls[i].result.baseAmountCents = calls[i - 1].input.amountCents
      /\ calls[i].result.totalGstCents = calls[i - 1].result.totalGstCents
      /\ (calls[i - 1].input.amountCents = 100000 /\ calls[i].input.gstRate = 18)
         => /\ calls[i].input.amountCents = 118000
            /\ calls[i].result.baseAmountCents = 100000
            /\ calls[i].result.totalGstCents = 18000
            /\ Intrastate(calls[i]) =>
                 (calls[i].result.cgstAmountCents = 9000
                  /\ calls[i].result.sgstAmountCents = 9000)

C7_Witness ==
  \E i \in DOMAIN calls :
    /\ i > 1 /\ ~calls[i - 1].input.isTaxInclusive
    /\ calls[i - 1].input.amountCents = 100000 /\ calls[i].input.gstRate = 18
    /\ Intrastate(calls[i])
    /\ calls[i].input.amountCents = 118000
    /\ calls[i].result.baseAmountCents = 100000
    /\ calls[i].result.cgstAmountCents = 9000

\* half of the integer n as a double: the same significand, the exponent
\* lowered by one
HalfOf(n) ==
  IF n = 0 THEN DZero ELSE [m |-> FromInt(n).m, e |-> FromInt(n).e - 1]

\* C8: taxType is CGST_SGST exactly when the two states are equal and IGST
\* otherwise; the split rates are gstRate / 2 each with igstRate 0 in the
\* first regime, igstRate is gstRate with split rates 0 in the second; the
\* three rates add up to gstRate.
C8_RegimeAndRates ==
  \A i \in DOMAIN calls :
    LET inp == calls[i].input
        out == calls[i].result
    IN /\ out.taxType \in {"CGST_SGST", "IGST"}
       /\ out.taxType = "CGST_SGST" <=> inp.merchantState = inp.customerState
       /\ out.taxType = "CGST_SGST" =>
            /\ out.cgstRate = HalfOf(inp.gstRate)
            /\ out.sgstRate = HalfOf(inp.gstRate)
            /\ out.igstRate = DZero
       /\ out.taxType = "IGST" =>
            /\ out.igstRate = FromInt(inp.gstRate)
            /\ out.cgstRate = DZero
            /\ out.sgstRate = DZero
       /\ AddD(AddD(out.cgstRate, out.sgstRate), out.igstRate) = FromInt(inp.gstRate)

C8_Witness ==
  \E i \in DOMAIN calls :
    /\ calls[i].result.taxType = "CGST_SGST"
    /\ calls[i].input.gstRate = 5
    /\ calls[i].result.cgstRate = HalfOf(5)

(***************************************************************************)
(* Properties of the GSTIN functions.                                      *)
(***************************************************************************)
Lower == {"a", "b", "c", "d", "e", "f", "g", "h", "i", "j", "k", "l", "m",
          "n", "o", "p", "q", "r", "s", "t", "u", "v", "w", "x", "y", "z"}
LetterPositions == (3..7) \cup {12}

\* 2 digits, 5 upper-case letters, 4 digits, 1 upper-case letter, one
\* character of entityClass, the letter Z, 1 digit or upper-case letter
HasShape(s, entityClass) ==
  /\ Len(s) = 15
  /\ \A i \in 1..2 : s[i] \in Digits
  /\ \A i \in 3..7 : s[i] \in Upper
  /\ \A i \in 8..11 : s[i] \in Digits
  /\ s[12] \in Upper
  /\ s[13] \in entityClass
  /\ s[14] = "Z"
  /\ s[15] \in Digits \cup Upper

C9_WitnessZeroEntity ==
  valid = <<FALSE>> /\ HasShape(gstin, {"0"})

\* C10: getStateCodeFromGSTIN returns the first two characters exactly when
\* validateGSTIN holds and null for every other string, the empty string
\* included; every string gets an answer.
C10_StateCodeIffValid ==
  stateCode # Unset =>
    /\ validateGSTIN(gstin) => stateCode[1] = <<gstin[1], gstin[2]>>
    /\ ~validateGSTIN(gstin) => stateCode[1] = Null
    /\ stateCode[1] # Null => (Len(stateCode[1]) = 2 /\ validateGSTIN(gstin))
    /\ gstin = << >> => stateCode[1] = Null
    /\ valid # Unset => (valid[1] <=> stateCode[1] # Null)

C10_Witness ==
  /\ stateCode = << <<"2", "9">> >>
  /\ valid = <<TRUE>>

C10_WitnessNull == stateCode = <<Null>> /\ Len(gstin) = 15

\* the separator of formatGSTIN and the positions of the identifier it
\* follows
Separator == " "
SeparatorAfter == <<2, 7, 11, 12, 13, 14>>
NoSeparator(s) == \A i \in 1..Len(s) : s[i] # Separator
IsSeparator(c) == c = Separator
IsNotSeparator(c) == c # Separator
StripSeparators(s) == SelectSeq(s, IsNotSeparator)

\* C11: formatGSTIN returns a string of another length than 15 unchanged;
\* a 15-character string without spaces comes back 21 characters long, with
\* a space after its characters 2, 7, 11, 12, 13 and 14, and taking the
\* spaces out gives the original string back.
C11_FormatRoundTrip ==
  formatted # Unset =>
    /\ Len(gstin) # 15 => formatted[1] = gstin
    /\ (Len(gstin) = 15 /\ NoSeparator(gstin)) =>
         /\ Len(formatted[1]) = 21
         /\ \A k \in 1..Len(SeparatorAfter) :
              formatted[1][SeparatorAfter[k] + k] = Separator
         /\ Len(SelectSeq(formatted[1], IsSeparator)) = Len(SeparatorAfter)
         /\ StripSeparators(formatted[1]) = gstin

C11_Witness ==
  /\ formatted # Unset /\ edits > 0
  /\ Len(gstin) = 15 /\ NoSeparator(gstin)
  /\ Len(formatted[1]) = 21

C11_WitnessUnchanged ==
  formatted # Unset /\ Len(gstin) = 16 /\ formatted[1] = gstin

IsString(s) == s \in Seq(Chars \cup Digits \cup Upper)
IsDouble(d) == DOMAIN d = {"m", "e"} /\ d.m \in Seq(0..(Base - 1)) /\ d.e \in Int
MoneyFields ==
  {"baseAmountCents", "cgstAmountCents", "sgstAmountCents", "igstAmountCents",
   "totalGstCents", "totalAmountCents"}
RateFields == {"cgstRate", "sgstRate", "igstRate"}
FullyPopulated(r) ==
  /\ DOMAIN r = MoneyFields \cup RateFields \cup {"taxType"}
  /\ \A f \in MoneyFields : r[f] \in Int
  /\ \A f \in RateFields : IsDouble(r[f])
  /\ r.taxType \in {"CGST_SGST", "IGST"}

\* C12: every operation of the library gives an answer of its declared
\* kind on every string: validateGSTIN a boolean, formatGSTIN a string,
\* getStateCodeFromGSTIN a string or null, getCustomerType 'B2B' or 'B2C';
\* calculateGST gives a result with all ten fields filled for every
\* non-negative amount and every rate from 0 to 100.
C12_OperationsTotal ==
  /\ valid # Unset => valid[1] \in BOOLEAN
  /\ formatted # Unset => IsString(formatted[1])
  /\ stateCode # Unset => stateCode[1] = Null \/ IsString(stateCode[1])
  /\ customerType # Unset => customerType[1].type \in {"B2B", "B2C"}
  /\ \A i \in 1..Len(calls) :
       (calls[i].input.amountCents >= 0 /\ calls[i].input.gstRate \in 0..100)
         => FullyPopulated(calls[i].result)

C12_Witness ==
  /\ gstin = << >>
  /\ valid = <<FALSE>> /\ formatted = << << >> >> /\ stateCode = <<Null>>
  /\ customerType # Unset /\ customerType[1].type = "B2C"

C12_WitnessCalculator ==
  /\ calls # << >> /\ calls[1].input.gstRate = 100
  /\ calls[1].input.amountCents = MaxRangeAmount
  /\ FullyPopulated(calls[1].result)

\* C14: for a non-negative whole amount and a rate from 0 to 100 every
\* monetary field of the result is a non-negative integer and the base
\* amount is not above the total amount.
C14_NonNegativeFields ==
  \A i \in 1..Len(calls) :
    (calls[i].input.amountCents \in Nat /\ calls[i].input.gstRate \in 0..100)
      => /\ \A f \in MoneyFields : calls[i].result[f] \in Nat
         /\ calls[i].result.baseAmountCents <= calls[i].result.totalAmountCents

C14_Witness ==
  /\ calls # << >>
  /\ calls[1].input.gstRate = 37 /\ calls[1].input.isTaxInclusive
  /\ Intrastate(calls[1])
  /\ calls[1].result.totalGstCents = 1
  /\ calls[1].result.sgstAmountCents = 0

\* the inputs that differ from the input of call c in the two state codes
\* only, and agree with it on whether the two codes are equal
SameEqualityInputs(c) ==
  {[c.input EXCEPT !.merchantState = m, !.customerState = s] :
     <<m, s>> \in {p \in States \X States : (p[1] = p[2]) <=> Intrastate(c)}}

\* C13: the result of calculateGST depends on the two state codes only
\* through their being equal or not: a call with the same amount, rate and
\* inclusive flag and the same equality outcome gives the identical result,
\* whatever the codes are and whatever call came before.
C13_OnlyEqualityOfStates ==
  calls # << >> =>
    \A other \in SameEqualityInputs(calls[Len(calls)]) :
      calculateGST(other) = calls[Len(calls)].result

C13_Witness ==
  /\ Len(calls) = 2
  /\ calls[2].input.merchantState = "KA" /\ calls[2].input.customerState = "MH"
  /\ calls[2].result.igstAmountCents > 0
  /\ calculateGST([calls[2].input EXCEPT !.merchantState = "MH",
                                         !.customerState = "KA"])
       = calls[2].result

\* C18: while every call for an identifier in its current window was made
\* with one limit of at least 1, the calls admitted for it since its record
\* was created number at most that limit, and the stored count is at most
\* that limit.
C18_AdmittedWithinLimit ==
  \A identifier \in Identifiers, limit \in Limits :
    (limit >= 1 /\ admitted[identifier].limits = {limit}) =>
       /\ admitted[identifier].n <= limit
       /\ identifier \in DOMAIN rateLimitStore =>
            rateLimitStore[identifier].count <= limit

C18_Witness ==
  /\ lastCall # Unset /\ ~lastCall[1].result.success
  /\ admitted[lastCall[1].identifier] = [n |-> MaxLimit, limits |-> {MaxLimit}]
  /\ rateLimitStore[lastCall[1].identifier].count = MaxLimit

\* a step that is a call of rateLimit
IsRateLimitCall == lastCall' # lastCall
\* the call is for the identifier of the call before it, which was denied,
\* and comes no later than the resetTime that call returned
FollowsDenial ==
  /\ lastCall # Unset
  /\ lastCall[1].identifier = lastCall'[1].identifier
  /\ ~lastCall[1].result.success
  /\ lastCall'[1].now <= lastCall[1].result.resetTime
\* with no live record the call is admitted with remaining limit - 1 and
\* the record becomes {1, now + windowMs}
ExpiryAdmits ==
  NoLiveRecord(rateLimitStore, lastCall'[1].identifier, lastCall'[1].now) =>
    /\ lastCall'[1].result.success
    /\ lastCall'[1].result.remaining = lastCall'[1].limit - 1
    /\ rateLimitStore'[lastCall'[1].identifier] =
         [count |-> 1,
          resetTime |-> lastCall'[1].now + lastCall'[1].windowMs]
\* with a live record the call is admitted exactly when the stored count is
\* below its limit, and the window is kept
JudgedOnCount ==
  ~NoLiveRecord(rateLimitStore, lastCall'[1].identifier, lastCall'[1].now) =>
    /\ lastCall'[1].result.success <=>
         rateLimitStore[lastCall'[1].identifier].count < lastCall'[1].limit
    /\ lastCall'[1].result.resetTime =
         rateLimitStore[lastCall'[1].identifier].resetTime
    /\ rateLimitStore'[lastCall'[1].identifier].resetTime =
         rateLimitStore[lastCall'[1].identifier].resetTime

\* C20 as stated: a call with no live record is admitted and starts a new
\* window; a call within the window is judged on the stored count; a call
\* that follows a denial within the window is denied, whatever its limit.
C20_DeniedUntilReset ==
  [][IsRateLimitCall =>
       /\ ExpiryAdmits
       /\ JudgedOnCount
       /\ FollowsDenial => ~lastCall'[1].result.success]_vars

\* C20: a call with no live record is admitted with remaining limit - 1
\* and starts a new window {1, now + windowMs}; a call within the window is
\* judged on the stored count; a call that follows a denial within the
\* window and has a limit no higher than the denied call is denied.
C20_DeniedUntilResetSameLimit ==
  [][IsRateLimitCall =>
       /\ ExpiryAdmits
       /\ JudgedOnCount
       /\ (FollowsDenial /\ lastCall'[1].limit <= lastCall[1].limit)
            => ~lastCall'[1].result.success]_vars

\* a client was denied, is denied again within the window, and the window
\* has since passed and the next call was admitted into a new one
C20_Witness ==
  /\ lastCall # Unset /\ lastCall[1].result.success
  /\ lastCall[1].limit = 1 /\ lastCall[1].now = MaxNow
  /\ lastCall[1].result.remaining = 0
  /\ admitted[lastCall[1].identifier] = [n |-> 1, limits |-> {1}]
  /\ rateLimitStore[lastCall[1].identifier] =
       [count |-> 1, resetTime |-> MaxNow + lastCall[1].windowMs]

\* C15 as stated: a request makes a handler use the database only when its
\* sender is signed in with a user id of ADMIN_USER_IDS.
C15_DatabaseOnlyForAdmins ==
  (lastRequest # Unset /\ lastRequest[1].response.dbTouched) =>
     lastRequest[1].userId \in ADMIN_USER_IDS

RequireAdminRoutes == {"users", "subscriptions", "projects", "prompts"}
\* the answers the claim gives to a request without a session and to a
\* signed-in user outside the allow-list
DeniedAsStated(request) ==
  /\ request.userId = NoUser =>
       request.response = Response(401, "Unauthorized", FALSE, FALSE)
  /\ (request.userId # NoUser /\ request.userId \notin ADMIN_USER_IDS) =>
       request.response =
         Response(403, "Forbidden - Admin access required", FALSE, FALSE)
  /\ request.response.dbTouched => request.userId \in ADMIN_USER_IDS

\* C16 as stated: in the handlers guarded by requireAdmin a request without
\* a session gets 401 'Unauthorized', a signed-in user outside the
\* allow-list gets 403 'Forbidden - Admin access required', neither has its
\* body read or reaches the database, and only an allow-listed user reaches
\* the database.
C16_DeniedBeforeWork ==
  (lastRequest # Unset /\ lastRequest[1].route \in RequireAdminRoutes) =>
     DeniedAsStated(lastRequest[1])

\* C16: the same, except that a handler of the users route answers 429
\* first when its rate limit is used up; that answer, too, comes before the
\* body is read or the database is used.
C16_DeniedBeforeWorkUnlessLimited ==
  (lastRequest # Unset /\ lastRequest[1].route \in RequireAdminRoutes) =>
     IF lastRequest[1].response.status = 429
     THEN /\ lastRequest[1].route = "users"
          /\ nodeEnv # "development"
          /\ lastRequest[1].response = TooManyRequests
     ELSE DeniedAsStated(lastRequest[1])

C16_Witness ==
  /\ lastRequest # Unset
  /\ lastRequest[1].route = "projects" /\ lastRequest[1].method = "DELETE"
  /\ lastRequest[1].userId = "user_other"
  /\ lastRequest[1].response.status = 403

C16_WitnessLimited ==
  /\ lastRequest # Unset
  /\ lastRequest[1].route = "users" /\ lastRequest[1].userId = NoUser
  /\ lastRequest[1].response.status = 429

\* C19: in production, of the requests one client sends to the users route
\* within one window of its record, at most 100 GET, at most 50 POST and at
\* most 20 DELETE requests pass the rate limit.
C19_PassedWithinLimits ==
  nodeEnv = "production" =>
    /\ watched = "GET" => passed <= 100
    /\ watched = "POST" => passed <= 50
    /\ watched = "DELETE" => passed <= 20

C19_Witness ==
  /\ watched = "DELETE" /\ passed = 20
  /\ lastRequest # Unset /\ lastRequest[1].method = "DELETE"
  /\ lastRequest[1].response.status = 429

C19_WitnessShared ==
  /\ watched = "POST" /\ passed = 1
  /\ lastRequest # Unset /\ lastRequest[1].method = "POST"
  /\ lastRequest[1].response.status = 429
  /\ rateLimitStore["203.0.113.7"].count = 50

\* C17 as stated: the children are rendered only while Clerk is loaded, a
\* user is signed in, and the check sent for that user came back with
\* success; not while a check is pending, after a failure, after a
\* sign-out or after another user took over.
C17_ChildrenOnlyForCheckedUser ==
  (mounted /\ Rendered = "children") =>
     /\ auth.isLoaded
     /\ auth.userId # NoUser
     /\ approvedFor = auth.userId

\* the record of an identifier, or none
RecordOf(store, identifier) ==
  IF identifier \in DOMAIN store THEN <<store[identifier]>> ELSE << >>
\* a step that is a call of getRateLimitStatus
IsStatusCall == lastStatus' # Unset /\ lastStatus' # lastStatus

\* C21: a call of rateLimit leaves the record of every other identifier as
\* it was, and a denied call leaves the whole store as it was; a call of
\* getRateLimitStatus leaves the store as it was and, for a live record,
\* returns remaining = max(0, limit - count) and the stored resetTime.
C21_Frame ==
  [][/\ IsRateLimitCall =>
          /\ \A other \in Identifiers \ {lastCall'[1].identifier} :
               RecordOf(rateLimitStore', other) = RecordOf(rateLimitStore, other)
          /\ ~lastCall'[1].result.success => rateLimitStore' = rateLimitStore
     /\ IsStatusCall =>
          /\ rateLimitStore' = rateLimitStore
          /\ ~NoLiveRecord(rateLimitStore, lastStatus'[1].identifier, now) =>
               /\ lastStatus'[1].result.resetTime =
                    rateLimitStore[lastStatus'[1].identifier].resetTime
               /\ lastStatus'[1].result.remaining >= 0
               /\ lastStatus'[1].result.remaining >=
                    lastStatus'[1].limit
                      - rateLimitStore[lastStatus'[1].identifier].count
               /\ lastStatus'[1].result.remaining \in
                    {0, lastStatus'[1].limit
                          - rateLimitStore[lastStatus'[1].identifier].count}]_vars

\* a status call on the live record of a client that is above the limit
\* asked about, while the other client has a record too
C21_Witness ==
  /\ lastStatus # Unset /\ lastStatus[1].limit = 0
  /\ lastStatus[1].result.remaining = 0
  /\ DOMAIN rateLimitStore = Identifiers
  /\ rateLimitStore[lastStatus[1].identifier].count = MaxLimit
  /\ lastStatus[1].result.resetTime =
       rateLimitStore[lastStatus[1].identifier].resetTime

\* a denied call while the other client has a record
C21_WitnessDenied ==
  /\ lastCall # Unset /\ ~lastCall[1].result.success
  /\ DOMAIN rateLimitStore = Identifiers

\* C22: a record that leaves the store had now > resetTime, and every call
\* of rateLimit and of getRateLimitStatus returns what it returns in the
\* run of the same calls at the same times in which the cleanup never runs.
C22_CleanupUnobservable ==
  [][/\ \A i \in DOMAIN rateLimitStore \ DOMAIN rateLimitStore' :
          now > rateLimitStore[i].resetTime
     /\ IsRateLimitCall =>
          lastCall'[1].result =
            rateLimitResult(uncleaned, lastCall'[1].identifier,
                            lastCall'[1].limit, lastCall'[1].windowMs, now)
     /\ IsStatusCall =>
          lastStatus'[1].result =
            getRateLimitStatus(uncleaned, lastStatus'[1].identifier,
                               lastStatus'[1].limit, now)]_vars

\* a status call about a client whose record the cleanup has deleted
C22_Witness ==
  /\ lastStatus # Unset
  /\ lastStatus[1].identifier \in DOMAIN uncleaned \ DOMAIN rateLimitStore
  /\ lastStatus[1].result.remaining = lastStatus[1].limit

\* a call of rateLimit by a client whose record the cleanup had deleted
C22_WitnessCall ==
  /\ lastCall # Unset /\ lastCall[1].now = now /\ now > 0
  /\ lastCall[1].result.success
  /\ rateLimitStore = [i \in {lastCall[1].identifier} |->
                         [count |-> 1, resetTime |-> now + lastCall[1].windowMs]]
  /\ DOMAIN uncleaned = Identifiers

\* the calls of the client that succeeded in the window the call falls in
SucceededBefore(identifier) ==
  IF NoLiveRecord(rateLimitStore, identifier, now)
  THEN 0
  ELSE admitted[identifier].n

\* C23: the remaining value a call of rateLimit returns is never negative,
\* and the call succeeds only when fewer than limit calls of the current
\* window have succeeded before it, so that limit 0 denies every call.
C23_RemainingAndSuccess ==
  [][IsRateLimitCall =>
       /\ lastCall'[1].result.remaining >= 0
       /\ lastCall'[1].result.success =>
            SucceededBefore(lastCall'[1].identifier) < lastCall'[1].limit]_vars

\* no POST is between its steps
Quiescent == \A r \in Requests : posts[r].step \in {"idle", "done"}

\* C24: once the POST requests have been served, whatever the order of
\* their steps, at most one row of the table is active, and (no insert
\* having failed) a GET of an administrator returns the row inserted last.
C24_SingleActiveConfig ==
  Quiescent =>
    /\ Cardinality(ActiveIds) <= 1
    /\ (/\ lastGet # Unset /\ lastGet[1].status = 200 /\ configs # << >>
        /\ \A r \in Requests : posts[r].status # 500) =>
         lastGet[1].merchantConfig = <<configs[Len(configs)].id>>

====
